---- MODULE Spec2Model ----
(***************************************************************************)
(* Credential scheduling and rate limiting of the chat-completion proxy.   *)
(*                                                                         *)
(* The tracker (rate_limiter.py), the quota signal detector and backend    *)
(* call (providers.py) and the request coordinator with its key selection  *)
(* and model router (main.py) are modelled over one process-wide tracker   *)
(* state.  main.py:43-64 and rate_limiter.py:50-68 are the same admission  *)
(* code; the tracker's copy also flushes the state to the storage file.    *)
(* The restart of the process on the storage file (load_data) and the      *)
(* streaming relay (providers.py stream_response) have specifications of   *)
(* their own over the same state.                                          *)
(*                                                                         *)
(* Time is the value time.time() returns, in whole seconds.  A window is   *)
(* the list of timestamps the code stores, oldest first.                   *)
(***************************************************************************)
EXTENDS Integers, Sequences, FiniteSets, TLC

(***************************************************************************)
(* Bounds of the model.                                                    *)
(***************************************************************************)
\* per-provider ceilings of the configuration (config.json values, kept small)
max_request_min == 2
max_request_day == 3
\* number of clock advances explored while requests are handled
MaxTicks == 1
\* number of clock advances explored between direct calls of the tracker
MaxWaits == 2
\* number of direct calls of the tracker's interface explored
MaxCalls == 5
\* number of requests handled by the coordinator
MaxRequests == 2
\* number of chunks the source of a streamed response delivers at most
MaxChunks == 3
\* number of silences of the source explored while a response is streamed
MaxStalls == 2

(***************************************************************************)
(* Program constants.                                                      *)
(***************************************************************************)
window_min == 60
window_day == 86400
model_usage_gap_percentage == 5
\* a lifetime count loaded from the storage file (the 100 of the usage-gap case)
LoadedCount == 100

\* The clock advances by half a minute, or to half a minute before a day.
TickSteps == {30, 86370}

\* stream_response: seconds of silence before a keep-alive, and before the timeout
KEEPALIVE_INTERVAL == 5
TIMEOUT == 300

\* the source of a stream stays silent for a few seconds, or for over five minutes
StallSteps == {3, 301}

(***************************************************************************)
(* Configuration (config.json as read by main.py:14-36).                   *)
(***************************************************************************)
provider_configs ==
    << [provider |-> "openrouter", key |-> <<"or_key1", "or_key2">>],
       [provider |-> "gemini",     key |-> <<"g_key1">>] >>

auto_models == << "gpt-3.5-turbo:free", "gemini-pro" >>

access_key == "test_access_key"

Providers == { provider_configs[i].provider : i \in DOMAIN provider_configs }

KeysOf(p) ==
    LET i == CHOOSE j \in DOMAIN provider_configs : provider_configs[j].provider = p
    IN  provider_configs[i].key

KeySet(p) == { KeysOf(p)[i] : i \in DOMAIN KeysOf(p) }

Keys == UNION { KeySet(p) : p \in Providers }

ProviderOfKey(k) == CHOOSE p \in Providers : k \in KeySet(p)

rate_limit_settings(p) ==
    [max_request_day |-> max_request_day, max_request_min |-> max_request_min]

(***************************************************************************)
(* State.                                                                  *)
(***************************************************************************)
VARIABLES
    now,                 \* time.time()
    ticks,               \* clock advances so far
    rate_limit_windows,  \* [req_min, req_day: key -> list of timestamps]
    request_counts,      \* provider -> (recorded key -> lifetime count)
    stored,              \* content of the storage file
    plain,               \* providers whose count dict was read from the file (a plain dict)
    key_pools,           \* provider -> position of the cyclic iterator
    pc, model, key,      \* per request: position, and the handler's locals model and key
    resp,                \* the response returned last
    admitted,            \* history: key -> times of its admissions of the last day
    focus,               \* the credential the direct tracker calls address
    calls,               \* direct tracker calls so far
    lastCall,            \* history: the direct tracker call made at this instant, if any
    forcedAt,            \* history: key -> time of its pending forced exhaustion, or -1
    seenForced,          \* history: request -> keys that were force-exhausted when it selected
    stream,              \* the source of the streamed response: its chunks and how it ends
    pulled,              \* number of chunks stream_response has taken from the source
    relay_pc,            \* position of stream_response: "off", "pulling" or "done"
    frames,              \* the frames stream_response has yielded, in order
    last_yield_time,     \* stream_response's local of that name
    stalls,              \* silences of the source so far
    config               \* config.json's "provider_keys" as the process read it

vars == << now, ticks, rate_limit_windows, request_counts, stored, plain, key_pools,
           pc, model, key, resp, admitted, focus, calls, lastCall, forcedAt, seenForced,
           stream, pulled, relay_pc, frames, last_yield_time, stalls, config >>

relayVars == << stream, pulled, relay_pc, frames, last_yield_time, stalls >>

trackerVars == << rate_limit_windows, request_counts, stored, plain >>
requestVars == << key_pools, pc, model, key, resp, seenForced >>

Requests == 1 .. MaxRequests

\* The tracker state as one value, so that a handler's calls can be chained.
Tracker == [rate_limit_windows |-> rate_limit_windows,
            request_counts     |-> request_counts,
            stored             |-> stored,
            plain              |-> plain]

(***************************************************************************)
(* Rate Limit Tracker (rate_limiter.py).                                   *)
(***************************************************************************)
\* [t for t in window if t > now - length]
Prune(w, t, length) == SelectSeq(w, LAMBDA x : x > t - length)

\* the minute window as read at time t (rate_limiter.py:55)
MinuteWindow(w, t) == Prune(w, t, window_min)

\* the day window as read at time t (rate_limiter.py:61)
DayWindowAsMinute(w, t) == Prune(w, t, window_min)
DayWindow(w, t) == Prune(w, t, window_day)

\* len(window) >= ceiling
OverCeiling(n, ceiling) == n > ceiling
AtCeiling(n, ceiling) == n >= ceiling

\* window + [now]
AppendLost(w, t) == << t >>
AppendStamp(w, t) == Append(w, t)

\* request_counts[provider][key] += 1 raises KeyError when the provider's dict is
\* a plain dict (read from the file by load_data) that has no entry for the key
RaisesKeyError(T, p, k) == p \in T.plain /\ k \notin DOMAIN T.request_counts[p]

\* request_counts[provider][key] += 1 on a defaultdict of defaultdict(int)
Increment(counts, p, k) ==
    [counts EXCEPT ![p] =
        IF k \in DOMAIN counts[p]
        THEN [counts[p] EXCEPT ![k] = @ + 1]
        ELSE [x \in DOMAIN counts[p] \cup {k} |-> IF x = k THEN 1 ELSE counts[p][x]]]

\* save_data: the whole in-memory state overwrites the file
save_data(T) ==
    [T EXCEPT !.stored = [request_counts     |-> T.request_counts,
                          rate_limit_windows |-> T.rate_limit_windows]]

\* json.dump writes the text of the data; a write that is cut short leaves a
\* proper prefix of it, which is not the text of any JSON value
json_dump(data) == [complete |-> TRUE, data |-> data]
Truncated(text) == [text EXCEPT !.complete = FALSE]

\* the data in an empty file: {'request_counts': {}, 'rate_limit_windows': {}}
empty_data ==
    [request_counts     |-> [p \in Providers |-> << >>],
     rate_limit_windows |-> [req_min |-> [k \in Keys |-> << >>],
                             req_day |-> [k \in Keys |-> << >>]]]

\* _initialize_empty_file: the file and the state in memory are emptied
initialize_empty_file ==
    [rate_limit_windows |-> empty_data.rate_limit_windows,
     request_counts     |-> empty_data.request_counts,
     stored             |-> empty_data,
     plain              |-> {}]

\* load_data on a file with the given text: json.load, or JSONDecodeError.  The
\* count dict of a provider in the file comes back as a plain dict.
load_data(text) ==
    IF text.complete
    THEN [rate_limit_windows |-> text.data.rate_limit_windows,
          request_counts     |-> text.data.request_counts,
          stored             |-> text.data,
          plain              |-> { p \in Providers : DOMAIN text.data.request_counts[p] # {} }]
    ELSE initialize_empty_file

\* is_rate_limited(provider, key, settings) at time t, from tracker state T:
\* the value returned and the tracker state left behind.
is_rate_limited(T, p, k, t) ==
    LET settings == rate_limit_settings(p)
        req_min_window == MinuteWindow(T.rate_limit_windows.req_min[k], t)
    IN  IF AtCeiling(Len(req_min_window), settings.max_request_min)
        THEN [limited |-> TRUE, raised |-> FALSE, T |-> T]
        ELSE
          LET T1 == [T EXCEPT !.rate_limit_windows.req_min[k] =
                                   AppendStamp(req_min_window, t)]
              req_day_window == DayWindow(T1.rate_limit_windows.req_day[k], t)
          IN  IF AtCeiling(Len(req_day_window), settings.max_request_day)
              THEN [limited |-> TRUE, raised |-> FALSE, T |-> T1]
              ELSE
                LET T2 == [T1 EXCEPT !.rate_limit_windows.req_day[k] =
                                          AppendStamp(req_day_window, t)]
                    T3 == [T2 EXCEPT !.request_counts = Increment(@, p, k)]
                IN  IF RaisesKeyError(T2, p, k)
                    THEN [limited |-> FALSE, raised |-> TRUE, T |-> T2]
                    ELSE [limited |-> FALSE, raised |-> FALSE, T |-> save_data(T3)]

\* get_usage_data: per recorded key its lifetime count and the lengths of its
\* stored windows
get_usage_data(T) ==
    [k \in UNION { DOMAIN T.request_counts[p] : p \in Providers } |->
        [requests |-> T.request_counts[ProviderOfKey(k)][k],
         req_min  |-> Len(T.rate_limit_windows.req_min[k]),
         req_day  |-> Len(T.rate_limit_windows.req_day[k])]]

(***************************************************************************)
(* Quota Signal Detector (providers.py).                                   *)
(* An error text is its list of words; re.search of a literal pattern is   *)
(* the search for the pattern's words as a contiguous run.                 *)
(***************************************************************************)
ErrQuotaMinute == << "Rate", "limit", "exceeded", ":", "quota", "exceeded", "for", "this", "minute" >>
ErrResource    == << "RESOURCE", "EXHAUSTED" >>
ErrPerDay      == << "Requests", "per", "day", "exceeded" >>
ErrOther       == << "Some", "other", "error" >>

ErrorTexts == { ErrQuotaMinute, ErrResource, ErrPerDay, ErrOther }

\* str.lower() on the words that occur
LowerWord(w) ==
    CASE w = "Rate" -> "rate"
      [] w = "RESOURCE" -> "resource"
      [] w = "EXHAUSTED" -> "exhausted"
      [] w = "Requests" -> "requests"
      [] w = "Some" -> "some"
      [] OTHER -> w

Lower(text) == [i \in DOMAIN text |-> LowerWord(text[i])]

\* r"requests per (minute|day) exceeded" is its two alternatives
QUOTA_ERROR_PATTERNS(p) ==
    IF p = "openrouter"
    THEN { << "rate", "limit", "exceeded" >>,
           << "quota", "exceeded" >>,
           << "requests", "per", "minute", "exceeded" >>,
           << "requests", "per", "day", "exceeded" >> }
    ELSE IF p = "gemini"
    THEN { << "quota", "exceeded" >>,
           << "resource", "exhausted" >>,
           << "rate", "limit", "exceeded" >> }
    ELSE {}

re_search(pattern, text) ==
    \E i \in 1 .. Len(text) :
        /\ i + Len(pattern) - 1 <= Len(text)
        /\ \A j \in 1 .. Len(pattern) : text[i + j - 1] = pattern[j]

\* whether update_rate_limits finds a pattern of the provider in the text
MatchesAnyProvider(p, error_msg) ==
    \E q \in {"openrouter", "gemini"} :
        \E pattern \in QUOTA_ERROR_PATTERNS(q) : re_search(pattern, Lower(error_msg))
MatchesNoLower(p, error_msg) ==
    \E pattern \in QUOTA_ERROR_PATTERNS(p) : re_search(pattern, error_msg)
Matches(p, error_msg) ==
    \E pattern \in QUOTA_ERROR_PATTERNS(p) : re_search(pattern, Lower(error_msg))

\* [now] * n
Repeat(t, n) == [i \in 1 .. n |-> t]

\* rate_limiter.rate_limit_settings: the settings the coordinator attaches to the
\* tracker it hands to the backend call
limiter_settings(p) == rate_limit_settings(p)

\* update_rate_limits(provider, key, error_msg, rate_limiter) at time t
update_rate_limits(T, p, k, error_msg, t) ==
    IF Matches(p, error_msg)
    THEN [matched |-> TRUE,
          T |-> [T EXCEPT !.rate_limit_windows.req_day[k] =
                              Repeat(t, limiter_settings(p).max_request_day)]]
    ELSE [matched |-> FALSE, T |-> T]

(***************************************************************************)
(* History bookkeeping shared by the actions.                              *)
(***************************************************************************)
CountOf(counts, k) ==
    LET p == ProviderOfKey(k)
    IN  IF k \in DOMAIN counts[p] THEN counts[p][k] ELSE 0

\* the admissions of the last day, with those made by a step from tracker T to T2
AdmittedAfter(T, T2, t) ==
    [k \in Keys |->
        SelectSeq(admitted[k], LAMBDA x : x > t - window_day)
          \o Repeat(t, CountOf(T2.request_counts, k) - CountOf(T.request_counts, k))]

NoCall == [op |-> "none", key |-> "", limited |-> FALSE, raised |-> FALSE]

(***************************************************************************)
(* Initial state: the tracker is constructed from the storage file, which  *)
(* is absent or holds lifetime counts of earlier runs.                     *)
(***************************************************************************)
EmptyCounts == [p \in Providers |-> << >>]

StoredCounts ==
    { EmptyCounts,
      [EmptyCounts EXCEPT !["openrouter"] = [k \in {"or_key1"} |-> LoadedCount]],
      [EmptyCounts EXCEPT !["openrouter"] =
          [k \in {"or_key1", "or_key2"} |-> IF k = "or_key1" THEN LoadedCount ELSE 0]] }

EmptyWindows == [req_min |-> [k \in Keys |-> << >>], req_day |-> [k \in Keys |-> << >>]]

\* no response is being streamed
RelayOff ==
    /\ stream = [chunks |-> << >>, end |-> "stop"]
    /\ pulled = 0
    /\ relay_pc = "off"
    /\ frames = << >>
    /\ last_yield_time = 0
    /\ stalls = 0

ProxyInit ==
    /\ now = 0
    /\ ticks = 0
    /\ rate_limit_windows = EmptyWindows
    /\ request_counts \in StoredCounts
    /\ plain = { p \in Providers : DOMAIN request_counts[p] # {} }
    /\ stored = [request_counts |-> request_counts, rate_limit_windows |-> EmptyWindows]
    /\ key_pools = [p \in Providers |-> 1]
    /\ pc = [r \in Requests |-> "idle"]
    /\ model = [r \in Requests |-> ""]
    /\ key = [r \in Requests |-> ""]
    /\ resp = [status |-> 0, error |-> ""]
    /\ admitted = [k \in Keys |-> << >>]
    /\ focus \in Keys
    /\ calls = 0
    /\ lastCall = NoCall
    /\ forcedAt = [k \in Keys |-> -1]
    /\ seenForced = [r \in Requests |-> {}]

Init == ProxyInit /\ RelayOff /\ config = provider_configs

(***************************************************************************)
(* The clock.                                                              *)
(***************************************************************************)
Advance(d) ==
    /\ now' = now + d
    /\ ticks' = ticks + 1
    /\ lastCall' = NoCall
    /\ UNCHANGED << trackerVars, requestVars, admitted, focus, calls, forcedAt, relayVars, config >>

\* time passes while requests are handled.  Only selection and error handling
\* read the clock, so a handler that has read its body selects before time passes.
Tick(d) ==
    /\ ticks < MaxTicks
    /\ \A r \in Requests : pc[r] # "parsed"
    /\ Advance(d)

\* time passes between two direct calls of the tracker
Wait(d) ==
    /\ ticks < MaxWaits
    /\ Advance(d)

(***************************************************************************)
(* Direct calls of the tracker's interface.                                *)
(***************************************************************************)
Admit(p, k) ==
    LET res == is_rate_limited(Tracker, p, k, now)
    IN  /\ k = focus
        /\ calls < MaxCalls
        /\ calls' = calls + 1
        /\ rate_limit_windows' = res.T.rate_limit_windows
        /\ request_counts' = res.T.request_counts
        /\ stored' = res.T.stored
        /\ admitted' = AdmittedAfter(Tracker, res.T, now)
        /\ lastCall' = [op |-> "admit", key |-> k, limited |-> res.limited,
                        raised |-> res.raised]
        /\ UNCHANGED plain
        /\ forcedAt' = IF res.limited \/ res.raised THEN forcedAt
                       ELSE [forcedAt EXCEPT ![k] = -1]
        /\ UNCHANGED << now, ticks, requestVars, focus, relayVars, config >>

ForceExhaust(p, k, e) ==
    LET res == update_rate_limits(Tracker, p, k, e, now)
    IN  /\ k = focus
        /\ calls < MaxCalls
        /\ calls' = calls + 1
        /\ rate_limit_windows' = res.T.rate_limit_windows
        /\ request_counts' = res.T.request_counts
        /\ stored' = res.T.stored
        /\ lastCall' = [op |-> "update", key |-> k, limited |-> res.matched,
                        raised |-> FALSE]
        /\ UNCHANGED plain
        /\ forcedAt' = IF res.matched THEN [forcedAt EXCEPT ![k] = now] ELSE forcedAt
        /\ UNCHANGED << now, ticks, requestVars, admitted, focus, relayVars, config >>

(***************************************************************************)
(* Key Selection Policy and Model Router (main.py).                        *)
(***************************************************************************)
Models == { "auto-model", "gpt-3.5-turbo:free", "gemini-pro" }

\* model.startswith("gemini")
StartsWithGemini(m) == m \in { "gemini-pro" }

get_provider_from_model(m) == IF StartsWithGemini(m) THEN "gemini" ELSE "openrouter"

SetMax(S) == CHOOSE x \in S : \A y \in S : y <= x
SetMin(S) == CHOOSE x \in S : \A y \in S : x <= y

\* usage_gap_exceeded(provider): ((max - min) / max) * 100 > percentage
usage_gap_exceeded(T, p) ==
    LET usage == T.request_counts[p]
        values == { usage[k] : k \in DOMAIN usage }
    IN  IF Cardinality(DOMAIN usage) < 2 THEN FALSE
        ELSE IF SetMax(values) = 0 THEN FALSE
        ELSE (SetMax(values) - SetMin(values)) * 100
                 > model_usage_gap_percentage * SetMax(values)

\* whether the configuration read has an entry for provider p
Configured(p) == \E i \in DOMAIN config : config[i].provider = p

\* the keys that key_pools[p] cycles over: those of p's entry of the configuration
ConfigKeys(p) ==
    IF Configured(p)
    THEN config[CHOOSE i \in DOMAIN config : config[i].provider = p].key
    ELSE << >>

\* next(key_pools[provider]) on itertools.cycle(keys)
NextCursor(p, c) == IF c = Len(ConfigKeys(p)) THEN 1 ELSE c + 1

\* for _ in range(n): key = next(pool); if not limited and not gap: break; else: 429
RECURSIVE KeyLoop(_, _, _, _, _)
KeyLoop(T, p, c, n, t) ==
    IF n = 0
    THEN [found |-> FALSE, raised |-> FALSE, key |-> "", T |-> T, cursor |-> c,
          visits |-> << >>]
    ELSE LET k   == ConfigKeys(p)[c]
             res == is_rate_limited(T, p, k, t)
             rest == KeyLoop(res.T, p, NextCursor(p, c), n - 1, t)
         IN  IF res.raised
             THEN [found |-> FALSE, raised |-> TRUE, key |-> "", T |-> res.T,
                   cursor |-> NextCursor(p, c), visits |-> << k >>]
             ELSE IF ~res.limited /\ ~usage_gap_exceeded(res.T, p)
             THEN [found |-> TRUE, raised |-> FALSE, key |-> k, T |-> res.T,
                   cursor |-> NextCursor(p, c), visits |-> << k >>]
             ELSE [rest EXCEPT !.visits = << k >> \o @]

\* select_next_available_model: the scan from model i, key j of its provider on
RECURSIVE RouterScan(_, _, _, _)
RouterScan(T, i, j, t) ==
    IF i > Len(auto_models)
    THEN [model |-> "", raised |-> FALSE, T |-> T]
    ELSE LET m == auto_models[i]
             p == get_provider_from_model(m)
         IN  IF j > Len(ConfigKeys(p))
             THEN RouterScan(T, i + 1, 1, t)
             ELSE LET res == is_rate_limited(T, p, ConfigKeys(p)[j], t)
                  IN  IF res.raised
                      THEN [model |-> "", raised |-> TRUE, T |-> res.T]
                      ELSE IF ~res.limited /\ ~usage_gap_exceeded(res.T, p)
                      THEN [model |-> m, raised |-> FALSE, T |-> res.T]
                      ELSE RouterScan(res.T, i, j + 1, t)

select_next_available_model(T, t) == RouterScan(T, 1, 1, t)

(***************************************************************************)
(* Request Coordinator (main.py proxy_chat, providers.py backend calls).   *)
(* A handler runs without interruption between two awaits: the body read,  *)
(* then routing, key selection and the start of the backend call, then the *)
(* backend's answer.                                                       *)
(***************************************************************************)
NoHeader == [scheme |-> "", token |-> ""]
Headers == { NoHeader,
             [scheme |-> "Basic ", token |-> access_key],
             [scheme |-> "Bearer ", token |-> "wrong_key"],
             [scheme |-> "Bearer ", token |-> access_key] }

Response(code, text) == [status |-> code, error |-> text]

\* the check of the authorization header: the status it is refused with, or 0
AuthenticateAnyBearer(h) ==
    IF h = NoHeader \/ h.scheme # "Bearer " THEN 401 ELSE 0
Authenticate(h) ==
    IF h = NoHeader \/ h.scheme # "Bearer " THEN 401
    ELSE IF h.token # access_key THEN 403
    ELSE 0

\* proxy_chat up to "body = await request.json()"
Receive(r, h, m) ==
    /\ pc[r] = "idle"
    /\ \A q \in Requests : q < r => pc[q] \notin {"idle", "parsed"}
    /\ IF Authenticate(h) = 401
       THEN /\ pc' = [pc EXCEPT ![r] = "done"]
            /\ resp' = Response(401, "Missing or invalid authorization header.")
            /\ UNCHANGED model
       ELSE IF Authenticate(h) = 403
       THEN /\ pc' = [pc EXCEPT ![r] = "done"]
            /\ resp' = Response(403, "Invalid access token.")
            /\ UNCHANGED model
       ELSE /\ pc' = [pc EXCEPT ![r] = "parsed"]
            /\ model' = [model EXCEPT ![r] = m]
            /\ UNCHANGED resp
    /\ UNCHANGED << now, ticks, trackerVars, key_pools, key, seenForced,
                    admitted, focus, calls, lastCall, forcedAt, relayVars, config >>

\* the keys whose forced exhaustion is younger than a day
ForcedNow == { k \in Keys : forcedAt[k] >= 0 /\ now < forcedAt[k] + window_day }

\* what routing and key selection of request r come to, from the current state
Selection(r) ==
    LET routed == IF model[r] = "auto-model"
                  THEN select_next_available_model(Tracker, now)
                  ELSE [model |-> model[r], raised |-> FALSE, T |-> Tracker]
    IN  IF routed.raised
        THEN [outcome |-> "unhandled", model |-> "", key |-> "", T |-> routed.T,
              cursor |-> key_pools, visits |-> << >>]
        ELSE IF routed.model = ""
        THEN [outcome |-> "no_model", model |-> "", key |-> "", T |-> routed.T,
              cursor |-> key_pools, visits |-> << >>]
        ELSE IF Len(config) > 0 /\ ConfigKeys(get_provider_from_model(routed.model)) = << >>
        THEN \* next(key_pools[provider]): TypeError of cycle() for a provider without
             \* entry, StopIteration of an empty cycle; neither is a KeyError
             [outcome |-> "unhandled", model |-> routed.model, key |-> "", T |-> routed.T,
              cursor |-> key_pools, visits |-> << >>]
        ELSE LET p    == get_provider_from_model(routed.model)
                 loop == KeyLoop(routed.T, p, key_pools[p], Len(config), now)
             IN  [outcome |-> IF loop.raised THEN "key_error"
                              ELSE IF loop.found THEN "dispatch" ELSE "no_key",
                  model |-> routed.model, key |-> loop.key, T |-> loop.T,
                  cursor |-> [key_pools EXCEPT ![p] = loop.cursor],
                  visits |-> loop.visits]

\* the handler returns: its locals are gone
Return(r) ==
    /\ model' = [model EXCEPT ![r] = ""]
    /\ key' = [key EXCEPT ![r] = ""]
    /\ seenForced' = [seenForced EXCEPT ![r] = {}]

\* proxy_chat from the routing of "auto-model" to the backend call
Select(r) ==
    LET sel == Selection(r)
    IN  /\ pc[r] = "parsed"
        /\ rate_limit_windows' = sel.T.rate_limit_windows
        /\ request_counts' = sel.T.request_counts
        /\ stored' = sel.T.stored
        /\ key_pools' = sel.cursor
        /\ admitted' = AdmittedAfter(Tracker, sel.T, now)
        /\ forcedAt' = [k \in Keys |->
                           IF CountOf(sel.T.request_counts, k) > CountOf(request_counts, k)
                           THEN -1 ELSE forcedAt[k]]
        /\ CASE sel.outcome = "no_model" ->
                  /\ pc' = [pc EXCEPT ![r] = "done"]
                  /\ resp' = Response(429, "All models have reached their usage limits.")
                  /\ Return(r)
             [] sel.outcome = "no_key" ->
                  /\ pc' = [pc EXCEPT ![r] = "done"]
                  /\ resp' = Response(429, "No usable key for provider '{provider}' within usage gap limit.")
                  /\ Return(r)
             [] sel.outcome = "key_error" ->
                  /\ pc' = [pc EXCEPT ![r] = "done"]
                  /\ resp' = Response(500, "No keys available for provider '{provider}'")
                  /\ Return(r)
             [] sel.outcome = "unhandled" ->
                  /\ pc' = [pc EXCEPT ![r] = "done"]
                  /\ resp' = Response(500, "Internal Server Error")
                  /\ Return(r)
             [] sel.outcome = "dispatch" ->
                  /\ pc' = [pc EXCEPT ![r] = "calling"]
                  /\ model' = [model EXCEPT ![r] = sel.model]
                  /\ key' = [key EXCEPT ![r] = sel.key]
                  /\ seenForced' = [seenForced EXCEPT ![r] = ForcedNow]
                  /\ UNCHANGED resp
        /\ UNCHANGED << now, ticks, focus, calls, lastCall, plain, relayVars, config >>

\* the rate_limiter argument of the backend call: the coordinator hands the
\* process-wide tracker to it
rate_limiter_passed == TRUE

\* call_*_openai_compatible returns the completion
BackendOk(r) ==
    /\ pc[r] = "calling"
    /\ pc' = [pc EXCEPT ![r] = "done"]
    /\ resp' = Response(200, "")
    /\ Return(r)
    /\ UNCHANGED << now, ticks, trackerVars, key_pools,
                    admitted, focus, calls, lastCall, forcedAt, relayVars, config >>

FailureText(p) ==
    IF p = "gemini" THEN "Failed to complete Gemini request: {error_msg}"
                    ELSE "Failed to complete OpenRouter request: {error_msg}"

\* call_*_openai_compatible: the backend raises an error with text e
BackendFail(r, e) ==
    LET p   == get_provider_from_model(model[r])
        res == IF rate_limiter_passed
               THEN update_rate_limits(Tracker, p, key[r], e, now)
               ELSE [matched |-> FALSE, T |-> Tracker]
    IN  /\ pc[r] = "calling"
        /\ pc' = [pc EXCEPT ![r] = "done"]
        /\ rate_limit_windows' = res.T.rate_limit_windows
        /\ request_counts' = res.T.request_counts
        /\ stored' = res.T.stored
        /\ resp' = IF res.matched
                      THEN Response(429, "Provider rate limit exceeded: {error_msg}")
                      ELSE Response(500, FailureText(p))
        /\ forcedAt' = IF res.matched THEN [forcedAt EXCEPT ![key[r]] = now] ELSE forcedAt
        /\ Return(r)
        /\ UNCHANGED << now, ticks, key_pools, admitted, focus, calls, lastCall, plain,
                        relayVars, config >>

Next ==
    \/ \E d \in TickSteps : Tick(d)
    \/ \E r \in Requests : \E h \in Headers : \E m \in Models : Receive(r, h, m)
    \/ \E r \in Requests : Select(r)
    \/ \E r \in Requests : BackendOk(r)
    \/ \E r \in Requests : \E e \in ErrorTexts : BackendFail(r, e)

\* the coordinator's runs make no direct call: the focus is immaterial
CoordInit == Init /\ focus = "or_key1" /\ request_counts = EmptyCounts

Spec == CoordInit /\ [][Next]_vars

\* the coordinator started on a storage file that holds lifetime counts
LoadedInit == Init /\ focus = "or_key1" /\ request_counts # EmptyCounts

LoadedSpec == LoadedInit /\ [][Next]_vars

\* configurations that leave a provider without credentials: no entry for it,
\* an entry with an empty key list, or no entry at all
Misconfigurations ==
    { << provider_configs[2] >>,
      << provider_configs[1] >>,
      << [provider_configs[1] EXCEPT !.key = << >>], provider_configs[2] >>,
      << >> }

MisconfInit ==
    /\ ProxyInit /\ RelayOff /\ focus = "or_key1" /\ request_counts = EmptyCounts
    /\ config \in Misconfigurations

\* the coordinator started on a configuration that lacks credentials
MisconfSpec == MisconfInit /\ [][Next]_vars

TrackerNext ==
    \/ \E d \in TickSteps : Wait(d)
    \/ \E p \in Providers : \E k \in KeySet(p) : Admit(p, k)
    \/ \E p \in Providers : \E k \in KeySet(p) : \E e \in ErrorTexts : ForceExhaust(p, k, e)

TrackerInit == Init /\ request_counts = EmptyCounts

TrackerSpec == TrackerInit /\ [][TrackerNext]_vars

(***************************************************************************)
(* Restart of the process (rate_limiter.py load_data, save_data).          *)
(***************************************************************************)
\* where in is_rate_limited the process is killed: after the windows and the
\* counter were updated and before save_data opens the file, or inside json.dump
CrashPoints == { "before_write", "mid_write" }

\* the state is saved, and a new RateLimiter is constructed on the file; the
\* calls that follow address credential f
SaveAndReload(f) ==
    LET saved  == save_data(Tracker)
        loaded == load_data(json_dump(saved.stored))
    IN  /\ calls < MaxCalls
        /\ calls' = calls + 1
        /\ rate_limit_windows' = loaded.rate_limit_windows
        /\ request_counts' = loaded.request_counts
        /\ stored' = loaded.stored
        /\ plain' = loaded.plain
        /\ focus' = f
        /\ lastCall' = [op |-> "reload", key |-> f, limited |-> FALSE, raised |-> FALSE]
        /\ UNCHANGED << now, ticks, requestVars, admitted, forcedAt, relayVars, config >>

\* the process is killed in a call of is_rate_limited that admits, at the given
\* point, and a new RateLimiter is constructed on the file as the kill left it
Crash(p, k, point) ==
    LET res    == is_rate_limited(Tracker, p, k, now)
        file   == IF point = "before_write"
                  THEN json_dump(stored)
                  ELSE Truncated(json_dump(res.T.stored))
        loaded == load_data(file)
    IN  /\ k = focus
        /\ calls < MaxCalls
        /\ ~res.limited /\ ~res.raised
        /\ calls' = calls + 1
        /\ rate_limit_windows' = loaded.rate_limit_windows
        /\ request_counts' = loaded.request_counts
        /\ stored' = loaded.stored
        /\ plain' = loaded.plain
        /\ lastCall' = [op |-> "crash", key |-> k, limited |-> FALSE, raised |-> FALSE]
        /\ forcedAt' = [x \in Keys |-> -1]
        /\ UNCHANGED << now, ticks, requestVars, admitted, focus, relayVars, config >>

PersistNext ==
    \/ \E d \in TickSteps : Wait(d)
    \/ \E p \in Providers : \E k \in KeySet(p) : Admit(p, k)
    \/ \E p \in Providers : \E k \in KeySet(p) : \E e \in ErrorTexts : ForceExhaust(p, k, e)
    \/ \E f \in Keys : SaveAndReload(f)
    \/ \E p \in Providers : \E k \in KeySet(p) : \E point \in CrashPoints : Crash(p, k, point)

PersistSpec == TrackerInit /\ [][PersistNext]_vars

(***************************************************************************)
(* Streaming Relay (providers.py stream_response, format_stream_chunk).    *)
(* A source chunk is what format_stream_chunk tells apart: a content       *)
(* delta, a tool-call delta, a delta with neither, a chunk without choices *)
(* and a chunk without delta.  The source ends by itself or by raising.    *)
(***************************************************************************)
Chunks ==
    { [kind |-> "content",    data |-> "a"],
      [kind |-> "content",    data |-> "b"],
      [kind |-> "tool_calls", data |-> "a"],
      [kind |-> "blank",      data |-> ""],
      [kind |-> "no_choices", data |-> ""],
      [kind |-> "no_delta",   data |-> ""] }

Sources ==
    { [chunks |-> c, end |-> e] :
        c \in UNION { [1 .. n -> Chunks] : n \in 0 .. MaxChunks },
        e \in { "stop", "error" } }

\* the frames: "data: {...}\n\n", ":\n\n" and "data: [DONE]\n\n"
DataFrame(delta, data) == [type |-> "data", delta |-> delta, data |-> data]
KeepAlive == [type |-> "comment", delta |-> "", data |-> ""]
ErrorFrame == DataFrame("error", "Stream timeout")
Done == DataFrame("", "[DONE]")

\* format_stream_chunk: the frame of a chunk, None, or ValueError raised
format_stream_chunk(chunk) ==
    CASE chunk.kind \in { "no_choices", "no_delta" } ->
             [raised |-> TRUE, formatted |-> << >>]
      [] chunk.kind \in { "content", "tool_calls" } ->
             [raised |-> FALSE, formatted |-> << DataFrame(chunk.kind, chunk.data) >>]
      [] OTHER ->
             [raised |-> FALSE, formatted |-> << >>]

\* whether the name httpx is bound in providers.py (it is not imported there)
httpx_defined == FALSE

\* yield frame
YieldFirst(out, frame) == << frame >> \o out
Yield(out, frame) == Append(out, frame)

\* finally: yield "data: [DONE]\n\n"
FinallyNothing(out) == out
Finally(out) == Yield(out, Done)

\* the keep-alive of the two branches that yield no real frame
KeepAliveDue(current_time) == current_time - last_yield_time > KEEPALIVE_INTERVAL

\* the source stays silent for d seconds while stream_response waits for it
RelayStall(d) ==
    /\ relay_pc = "pulling"
    /\ stalls < MaxStalls
    /\ stalls' = stalls + 1
    /\ now' = now + d
    /\ UNCHANGED << ticks, trackerVars, requestVars, admitted, focus, calls,
                    lastCall, forcedAt, stream, pulled, relay_pc, frames,
                    last_yield_time, config >>

\* one round of "async for chunk in stream": the source delivers its next chunk
RelayChunk ==
    LET chunk == stream.chunks[pulled + 1]
        current_time == now
        res == format_stream_chunk(chunk)
        pinged == IF KeepAliveDue(current_time) THEN Yield(frames, KeepAlive) ELSE frames
    IN  /\ relay_pc = "pulling"
        /\ pulled < Len(stream.chunks)
        /\ pulled' = pulled + 1
        /\ IF current_time - last_yield_time > TIMEOUT
           THEN /\ frames' = Finally(Yield(frames, ErrorFrame))
                /\ relay_pc' = "done"
                /\ UNCHANGED last_yield_time
           ELSE IF ~res.raised /\ res.formatted # << >>
           THEN /\ frames' = Yield(frames, res.formatted[1])
                /\ last_yield_time' = current_time
                /\ UNCHANGED relay_pc
           ELSE IF ~res.raised
           THEN /\ frames' = pinged
                /\ last_yield_time' = IF KeepAliveDue(current_time)
                                      THEN current_time ELSE last_yield_time
                /\ UNCHANGED relay_pc
           ELSE IF httpx_defined
           THEN /\ frames' = pinged
                /\ last_yield_time' = IF KeepAliveDue(current_time)
                                      THEN current_time ELSE last_yield_time
                /\ UNCHANGED relay_pc
           ELSE \* NameError in the handler of the chunk error: the outer handler, then finally
                /\ frames' = Finally(pinged)
                /\ last_yield_time' = IF KeepAliveDue(current_time)
                                      THEN current_time ELSE last_yield_time
                /\ relay_pc' = "done"
        /\ UNCHANGED << now, ticks, trackerVars, requestVars, admitted, focus, calls,
                        lastCall, forcedAt, stream, stalls, config >>

\* the source is exhausted or raises: the loop is left, finally runs
RelayEnd ==
    /\ relay_pc = "pulling"
    /\ pulled = Len(stream.chunks)
    /\ frames' = Finally(frames)
    /\ relay_pc' = "done"
    /\ UNCHANGED << now, ticks, trackerVars, requestVars, admitted, focus, calls,
                    lastCall, forcedAt, stream, pulled, last_yield_time, stalls,
                    config >>

RelayStep == RelayChunk \/ RelayEnd

RelayNext ==
    \/ \E d \in StallSteps : RelayStall(d)
    \/ RelayChunk
    \/ RelayEnd

\* stream_response is called on a source
RelayInit ==
    /\ ProxyInit /\ focus = "or_key1" /\ request_counts = EmptyCounts
    /\ config = provider_configs
    /\ stream \in Sources
    /\ pulled = 0
    /\ relay_pc = "pulling"
    /\ frames = << >>
    /\ last_yield_time = now
    /\ stalls = 0

RelaySpec == RelayInit /\ [][RelayNext]_vars

\* the source delivers every chunk it has and ends
RelayFairSpec == RelaySpec /\ WF_vars(RelayStep)

(***************************************************************************)
(* Properties.                                                             *)
(***************************************************************************)
\* the number of timestamps of a list that lie in the span (t - length, t]
InSpan(log, t, length) == Len(SelectSeq(log, LAMBDA x : x > t - length))

DirectAdmit(k) == \E p \in Providers : k \in KeySet(p) /\ Admit(p, k)

\* C1: for every key, the admissions of any 60-second span number at most
\* max_request_min (an excess call is never admitted), and the stored minute
\* window never holds more than max_request_min timestamps.
TheoremC1 ==
    \A k \in Keys :
        /\ InSpan(admitted[k], now, window_min) <= max_request_min
        /\ Len(rate_limit_windows.req_min[k]) <= max_request_min

\* a call was rejected at an instant at which the minute's admissions are at the ceiling
WitnessC1 ==
    /\ lastCall = [op |-> "admit", key |-> focus, limited |-> TRUE, raised |-> FALSE]
    /\ InSpan(admitted[focus], now, window_min) = max_request_min
    /\ Len(rate_limit_windows.req_min[focus]) = max_request_min

\* C2: for every key, the admissions of any 86400-second span number at most
\* max_request_day, whatever the minute window holds.
TheoremC2 ==
    \A k \in Keys : InSpan(admitted[k], now, window_day) <= max_request_day

\* a call was rejected with the day's admissions at the ceiling while the minute's
\* admissions were below theirs
WitnessC2 ==
    /\ lastCall = [op |-> "admit", key |-> focus, limited |-> TRUE, raised |-> FALSE]
    /\ InSpan(admitted[focus], now, window_day) = max_request_day
    /\ InSpan(admitted[focus], now, window_min) < max_request_min

\* C3: a call that rejects leaves the windows, the lifetime counters and the
\* storage file as they were.
CounterC3 ==
    [][\A k \in Keys :
          (DirectAdmit(k) /\ lastCall'.limited) => UNCHANGED trackerVars]_vars

\* C7: after a forced exhaustion of key k at time T, a call for k before
\* T + 86400 is rejected and the first call for k from T + 86400 on is admitted,
\* whatever calls were rejected in between.
CounterC7 ==
    [][\A k \in Keys :
          (DirectAdmit(k) /\ forcedAt[k] >= 0)
              => (lastCall'.limited <=> now < forcedAt[k] + window_day)]_vars

\* the error texts that carry a quota phrase of the provider, in any letter case
QuotaTexts(p) ==
    IF p = "openrouter" THEN { ErrQuotaMinute, ErrPerDay }
                        ELSE { ErrQuotaMinute, ErrResource }

Dispatched(r) == pc[r] = "parsed" /\ pc'[r] = "calling"
Refused(r) == pc[r] = "parsed" /\ pc'[r] = "done"

\* admit would reject key k of provider p now
Exhausted(p, k) == is_rate_limited(Tracker, p, k, now).limited

\* C4: handlers interleave only at their awaits and a call of admit is one
\* uninterrupted step, so under any interleaving of the requests in flight no key
\* is admitted more often than max_request_min times within a minute or
\* max_request_day times within a day.
TheoremC4 ==
    \A k \in Keys :
        /\ InSpan(admitted[k], now, window_min) <= max_request_min
        /\ InSpan(admitted[k], now, window_day) <= max_request_day
        /\ Cardinality({ r \in Requests : pc[r] = "calling" /\ key[r] = k })
               <= CountOf(request_counts, k)

\* two requests are in flight with the same key, which is at its minute ceiling
WitnessC4 ==
    \E r1, r2 \in Requests :
        /\ r1 # r2
        /\ pc[r1] = "calling" /\ pc[r2] = "calling"
        /\ key[r1] = key[r2]
        /\ InSpan(admitted[key[r1]], now, window_min) = max_request_min

\* C5: selection dispatches only with a key that admit accepted in that step;
\* for a provider with two keys of which exactly one is exhausted it dispatches
\* with the other one; when every key of the provider is exhausted it dispatches
\* with none and answers 429.
CounterC5 ==
    [][\A r \in Requests :
          (Select(r) /\ model[r] # "auto-model") =>
              LET p == get_provider_from_model(model[r])
                  ex == { k \in KeySet(p) : Exhausted(p, k) }
              IN  /\ Dispatched(r) =>
                        CountOf(request_counts', key'[r]) > CountOf(request_counts, key'[r])
                  /\ (Cardinality(KeySet(p)) = 2 /\ Cardinality(ex) = 1) =>
                        (Dispatched(r) /\ key'[r] \in KeySet(p) \ ex)
                  /\ ex = KeySet(p) =>
                        (Refused(r) /\ resp'.status = 429)]_vars

\* C6: a request answered 429 by routing or key selection leaves every window
\* and every lifetime counter as it was.
CounterC6 ==
    [][\A r \in Requests :
          (Select(r) /\ Refused(r)) =>
              UNCHANGED << rate_limit_windows, request_counts >>]_vars

TheoremC9 ==
    [][\A r \in Requests : \A e \in ErrorTexts :
          (BackendFail(r, e) /\ e \notin QuotaTexts(get_provider_from_model(model[r])))
              => /\ resp' = Response(500, FailureText(get_provider_from_model(model[r])))
                 /\ UNCHANGED trackerVars]_vars

\* a generic failure was answered for a key that has admissions on record
WitnessC9 ==
    /\ resp.status = 500
    /\ \E k \in Keys : Len(rate_limit_windows.req_day[k]) > 0

\* C10: with lifetime counts 100 and 0 on the two keys of a provider and a gap
\* threshold of 5 percent, selection dispatches with the 0-count key and never
\* with the 100-count key.
CounterC10 ==
    [][\A r \in Requests :
          ( /\ Select(r)
            /\ model[r] = "gpt-3.5-turbo:free"
            /\ CountOf(request_counts, "or_key1") = LoadedCount
            /\ CountOf(request_counts, "or_key2") = 0 )
              => (Dispatched(r) /\ key'[r] = "or_key2")]_vars

\* provider p has a key that admit would accept now
HasAdmissibleKey(p) == p \in Providers /\ \E k \in KeySet(p) : ~Exhausted(p, k)

\* the first model of the preference list whose provider has an admissible key
FirstAdmissible ==
    LET ok == { i \in DOMAIN auto_models :
                  HasAdmissibleKey(get_provider_from_model(auto_models[i])) }
    IN  IF ok = {} THEN "" ELSE auto_models[SetMin(ok)]

\* C11: for an "auto-model" request the router returns the first model of the
\* preference list whose provider has an admissible key, and nothing exactly when
\* no provider of a listed model has one; the request is then answered 429 "All
\* models have reached their usage limits." and no backend call is started.
CounterC11 ==
    [][\A r \in Requests :
          (Select(r) /\ model[r] = "auto-model") =>
              LET routed == select_next_available_model(Tracker, now).model
              IN  /\ routed = FirstAdmissible
                  /\ routed = "" =>
                        /\ Refused(r)
                        /\ resp' = Response(429, "All models have reached their usage limits.")]_vars

\* the number of occurrences of a frame in an output
FrameCount(out, frame) == Len(SelectSeq(out, LAMBDA x : x = frame))

\* more than the timeout ceiling has passed since the last frame
TimedOut == now - last_yield_time > TIMEOUT

\* C12: whatever the source delivers and however it ends (by itself, empty, by
\* raising, or after a silence beyond the timeout), the output of the relay
\* gets the frame "data: [DONE]" exactly once, as its last frame, and the relay
\* has terminated with it: no frame follows.
TheoremC12 ==
    /\ [](relay_pc = "pulling" => FrameCount(frames, Done) = 0)
    /\ [](relay_pc = "done" =>
             /\ FrameCount(frames, Done) = 1
             /\ frames[Len(frames)] = Done)
    /\ [][relay_pc = "done" => frames' = frames]_vars
    /\ <>(relay_pc = "done")

\* the source raised after its last chunk, behind frames already relayed
WitnessC12 ==
    /\ relay_pc = "done"
    /\ stream.end = "error"
    /\ pulled = Len(stream.chunks)
    /\ pulled = MaxChunks
    /\ Len(frames) > 1
    /\ frames[Len(frames)] = Done

Malformed(chunk) == chunk.kind \in { "no_choices", "no_delta" }

\* C13: a chunk without choices or without delta is skipped: the relay yields no
\* data frame for it (at most a keep-alive) and goes on pulling from the source;
\* it stops early only on the timeout or when the source raises.
CounterC13 ==
    [][(RelayChunk /\ Malformed(stream.chunks[pulled + 1]) /\ ~TimedOut)
          => /\ relay_pc' = "pulling"
             /\ frames' \in { frames, Append(frames, KeepAlive) }]_vars

\* the content frames of the first n chunks of the source
ContentFrames(n) == [i \in 1 .. n |-> DataFrame("content", stream.chunks[i].data)]

\* C14: for a source of n content chunks that ends by itself, with no silence
\* beyond the timeout, the output is the n content frames of the chunks in source
\* order, each once, followed by the one "data: [DONE]" frame.
TheoremC14 ==
    ( /\ relay_pc # "off"
      /\ \A i \in DOMAIN stream.chunks : stream.chunks[i].kind = "content"
      /\ stream.end = "stop"
      /\ now <= TIMEOUT )
        => /\ relay_pc = "pulling" => frames = ContentFrames(pulled)
           /\ relay_pc = "done" =>
                 /\ pulled = Len(stream.chunks)
                 /\ frames = ContentFrames(pulled) \o << Done >>

\* a source of MaxChunks content chunks, not all alike and with silences between
\* them, has been relayed to its end
WitnessC14 ==
    /\ relay_pc = "done"
    /\ stream.end = "stop"
    /\ Len(stream.chunks) = MaxChunks
    /\ \A i \in DOMAIN stream.chunks : stream.chunks[i].kind = "content"
    /\ stream.chunks[1] # stream.chunks[2]
    /\ stalls > 0
    /\ now <= TIMEOUT
    /\ Len(frames) = MaxChunks + 1

\* C15: once more than TIMEOUT seconds have passed since the last frame, the
\* next thing the relay does is to yield one error frame and then the
\* "data: [DONE]" frame and to stop; no frame of a chunk follows.
CounterC15 ==
    [][(RelayStep /\ TimedOut)
          => /\ frames' = frames \o << ErrorFrame, Done >>
             /\ relay_pc' = "done"]_vars

\* C16: while the source is open, the relay lets no more than
\* KEEPALIVE_INTERVAL seconds pass without a frame: when a keep-alive is due it
\* is yielded before the source's silence goes on, also when no chunk arrives.
CounterC16 ==
    [][\A d \in StallSteps : RelayStall(d) => ~KeepAliveDue(now)]_vars

\* C17: the state saved and loaded by a new tracker has the same counters and
\* windows, and every call of admit after it, also for a key the provider's
\* counters do not hold yet, returns what it would return and leaves what it would
\* leave had the tracker not been restarted.
CounterC17 ==
    [][/\ (\E f \in Keys : SaveAndReload(f)) =>
              /\ request_counts' = request_counts
              /\ rate_limit_windows' = rate_limit_windows
       /\ \A k \in Keys :
              DirectAdmit(k) =>
                  LET res == is_rate_limited([Tracker EXCEPT !.plain = {}],
                                             ProviderOfKey(k), k, now)
                  IN  /\ ~lastCall'.raised
                      /\ lastCall'.limited = res.limited
                      /\ request_counts' = res.T.request_counts
                      /\ rate_limit_windows' = res.T.rate_limit_windows]_vars

\* C18: a process killed between the update of the windows in memory and the end
\* of the flush restarts on the state flushed last, whose counters and live
\* window entries are no more than those in memory at the kill.
CounterC18 ==
    [][\A p \in Providers : \A k \in KeySet(p) : \A point \in CrashPoints :
          Crash(p, k, point) =>
              LET atCrash == is_rate_limited(Tracker, p, k, now).T
              IN  /\ request_counts' = stored.request_counts
                  /\ rate_limit_windows' = stored.rate_limit_windows
                  /\ \A x \in Keys :
                        /\ CountOf(request_counts', x) <= CountOf(atCrash.request_counts, x)
                        /\ InSpan(rate_limit_windows'.req_min[x], now, window_min)
                              <= InSpan(atCrash.rate_limit_windows.req_min[x], now, window_min)
                        /\ InSpan(rate_limit_windows'.req_day[x], now, window_day)
                              <= InSpan(atCrash.rate_limit_windows.req_day[x], now, window_day)]_vars

\* the header h is refused by the authentication of the request
Unauthenticated(h) == h = NoHeader \/ h.scheme # "Bearer " \/ h.token # access_key

\* C19: a request without an "Authorization: Bearer <token>" header is answered
\* 401 and one whose token is not the configured secret 403; neither changes a
\* window, a lifetime counter, the storage file or a key-pool cursor, and neither
\* gets to a backend call.
TheoremC19 ==
    [][\A r \in Requests : \A h \in Headers :
          ((\E m \in Models : Receive(r, h, m)) /\ Unauthenticated(h)) =>
              /\ resp'.status = IF h = NoHeader \/ h.scheme # "Bearer " THEN 401 ELSE 403
              /\ pc'[r] = "done"
              /\ UNCHANGED << trackerVars, key_pools >>]_vars

\* a request with a wrong token was refused while keys had usage on record and
\* another request was at its backend call
WitnessC19 ==
    /\ resp = Response(403, "Invalid access token.")
    /\ \E k \in Keys : CountOf(request_counts, k) > 0
    /\ \E r \in Requests : pc[r] = "calling"
    /\ \E r \in Requests : pc[r] = "done"

\* C20: after every completed call of the tracker that changes a window or a
\* counter (admit, whatever it returns, and the forced exhaustion of
\* update_rate_limits) the storage file holds the state in memory.
CounterC20 ==
    lastCall.op \in { "admit", "update" } =>
        /\ stored.request_counts = request_counts
        /\ stored.rate_limit_windows = rate_limit_windows

\* the provider the key scan of request r is for, when its model is given
ScanProvider(r) == get_provider_from_model(model[r])

\* C21: the key scan of a selection starts at the pool's cursor, visits each
\* credential of the provider at most once, and ends in "No usable key" only
\* after it has visited every credential of the provider.
CounterC21 ==
    [][\A r \in Requests :
          (Select(r) /\ model[r] # "auto-model") =>
              LET sel == Selection(r)
                  p   == ScanProvider(r)
              IN  /\ sel.visits # << >> => sel.visits[1] = ConfigKeys(p)[key_pools[p]]
                  /\ \A i, j \in DOMAIN sel.visits : i # j => sel.visits[i] # sel.visits[j]
                  /\ sel.outcome = "no_key" =>
                        { sel.visits[i] : i \in DOMAIN sel.visits } = KeySet(p)]_vars

\* the credentials of provider p with the lowest lifetime request counter
LeastUsed(p) ==
    { k \in KeySet(p) : \A x \in KeySet(p) : CountOf(request_counts, k) <= CountOf(request_counts, x) }

\* C22: key selection tries a credential with the lowest lifetime request
\* counter of the provider first, and dispatches with it when the tracker admits
\* it; other credentials are scanned only when it is not admitted.
CounterC22 ==
    [][\A r \in Requests :
          (Select(r) /\ model[r] # "auto-model") =>
              LET sel == Selection(r)
                  p   == ScanProvider(r)
              IN  /\ sel.visits # << >>
                  /\ sel.visits[1] \in LeastUsed(p)
                  /\ ~Exhausted(p, sel.visits[1]) =>
                        (Dispatched(r) /\ key'[r] = sel.visits[1])]_vars

\* C23: a request that is dispatched, with a given model or with "auto-model",
\* adds one to the lifetime counter and one entry to both windows of the key it is
\* dispatched with, and leaves the usage of every other key as it was.
CounterC23 ==
    [][\A r \in Requests :
          (Select(r) /\ Dispatched(r)) =>
              \A k \in Keys :
                  IF k = key'[r]
                  THEN /\ CountOf(request_counts', k) = CountOf(request_counts, k) + 1
                       /\ Len(rate_limit_windows'.req_min[k])
                             = Len(MinuteWindow(rate_limit_windows.req_min[k], now)) + 1
                       /\ Len(rate_limit_windows'.req_day[k])
                             = Len(DayWindow(rate_limit_windows.req_day[k], now)) + 1
                  ELSE /\ CountOf(request_counts', k) = CountOf(request_counts, k)
                       /\ rate_limit_windows'.req_min[k] = rate_limit_windows.req_min[k]
                       /\ rate_limit_windows'.req_day[k] = rate_limit_windows.req_day[k]]_vars

\* C24: when the router returns a model for an "auto-model" request, the key
\* selection that follows in the same step finds a key of that model's provider:
\* the request is dispatched, not answered 429.
CounterC24 ==
    [][\A r \in Requests :
          ( /\ Select(r)
            /\ model[r] = "auto-model"
            /\ select_next_available_model(Tracker, now).model # "" )
              => (Dispatched(r) /\ resp'.status # 429)]_vars

\* every timestamp of window w is younger than length at time t
Fresh(w, t, length) == \A i \in DOMAIN w : w[i] > t - length

\* C25: after a call of admit, whatever it returns, the stored minute and day
\* windows of the key hold only timestamps t > now - window length, and the
\* window sizes of the usage snapshot count only such timestamps.
CounterC25 ==
    [][\A k \in Keys :
          DirectAdmit(k) =>
              /\ Fresh(rate_limit_windows'.req_min[k], now, window_min)
              /\ Fresh(rate_limit_windows'.req_day[k], now, window_day)
              /\ k \in DOMAIN get_usage_data(Tracker)' =>
                    /\ get_usage_data(Tracker)'[k].req_min
                          = InSpan(rate_limit_windows'.req_min[k], now, window_min)
                    /\ get_usage_data(Tracker)'[k].req_day
                          = InSpan(rate_limit_windows'.req_day[k], now, window_day)]_vars

\* C26: a request for a model whose provider has no credentials in the
\* configuration (no entry, or an entry with an empty key list) is answered
\* 500 "No keys available for provider ...", is not dispatched and changes no
\* window and no counter.
CounterC26 ==
    [][\A r \in Requests :
          ( /\ Select(r)
            /\ model[r] # "auto-model"
            /\ ConfigKeys(ScanProvider(r)) = << >> )
              => /\ resp' = Response(500, "No keys available for provider '{provider}'")
                 /\ Refused(r)
                 /\ UNCHANGED << rate_limit_windows, request_counts >>]_vars

====
